---- MODULE Spec2Model ----
(***************************************************************************)
(* Environment configuration resolution (config/environment_manager.py)   *)
(* and the pytest session lifecycle hooks (conftest.py): the              *)
(* test_environment and driver session fixtures, the per-test             *)
(* open_base_url fixture and the pytest_runtest_makereport failure        *)
(* observer.                                                              *)
(***************************************************************************)
EXTENDS Integers, Sequences, FiniteSets, TLC

(***************************************************************************)
(* Bounds of the model.                                                    *)
(***************************************************************************)
\* number of test items pytest collected for the session
MaxTests == 2
\* number of load_environment / test_environment calls in the resolver runs
MaxLoads == 3
\* largest value of the wall clock, in whole seconds
MaxClock == 1

(***************************************************************************)
(* Python values.                                                          *)
(***************************************************************************)
\* Python's None, and the null reference into the heap of config objects
None == "None"
NoRef == 0

\* str.lower() on the strings the model uses
Lower(s) ==
    CASE s = "TRUE" -> "true"
      [] s = "True" -> "true"
      [] s = "Firefox" -> "firefox"
      [] OTHER -> s

\* str.upper() on the strings the model uses
Upper(s) ==
    CASE s = "dev" -> "DEV"
      [] s = "qa" -> "QA"
      [] s = "prod" -> "PROD"
      [] s = "staging" -> "STAGING"
      [] s = "chrome" -> "CHROME"
      [] s = "Firefox" -> "FIREFOX"
      [] s = "firefox" -> "FIREFOX"
      [] s = "edge" -> "EDGE"
      [] s = "safari" -> "SAFARI"
      [] OTHER -> s

\* dict.get(key, default)
Get(d, k, default) == IF k \in DOMAIN d THEN d[k] ELSE default

(***************************************************************************)
(* Environment records: the JSON text of environments/<name>.json.         *)
(* kind "object" is a JSON object with the given members, "array" is      *)
(* valid JSON that is not an object, "malformed" is not valid JSON.       *)
(***************************************************************************)
Fields ==
    {"environment", "base_url", "username", "password", "timeout", "browser",
     "headless", "window_size", "implicit_wait", "page_load_timeout"}

EmptyDict == [k \in {} |-> None]

\* a value for each field that differs from the field's default
RecordValue ==
    [environment |-> "qa",
     base_url |-> "https://dev.example/",
     username |-> "dev_user",
     password |-> "dev_pass",
     timeout |-> 30,
     browser |-> "Firefox",
     headless |-> TRUE,
     window_size |-> [width |-> 1280, height |-> 720],
     implicit_wait |-> 5,
     page_load_timeout |-> 60]

\* the window_size members a record may carry
WindowSizeValues ==
    {[width |-> 1280, height |-> 720],
     [width |-> 1280],
     [height |-> 720]}

\* every JSON object over the documented fields
AllObjects ==
    UNION {
        IF "window_size" \in S
        THEN {[k \in S |-> IF k = "window_size" THEN w ELSE RecordValue[k]] :
                  w \in WindowSizeValues}
        ELSE {[k \in S |-> RecordValue[k]]}
        : S \in SUBSET Fields}

ObjectRecord(d) == [kind |-> "object", data |-> d]
MalformedRecord == [kind |-> "malformed", data |-> EmptyDict]
ArrayRecord == [kind |-> "array", data |-> EmptyDict]

(***************************************************************************)
(* EnvironmentConfig.from_dict                                             *)
(***************************************************************************)
\* WindowSize(**window_size_data): both keyword arguments are required
WindowSize(d) ==
    IF DOMAIN d = {"width", "height"}
    THEN [exc |-> "none", value |-> [width |-> d["width"], height |-> d["height"]]]
    ELSE [exc |-> "TypeError", value |-> None]

NoConfig == None

\* from_dict with the defaults of implicit_wait and timeout exchanged
from_dict_swapped_defaults(data) ==
    LET window_size_data ==
            Get(data, "window_size", [width |-> 1920, height |-> 1080])
        window_size == WindowSize(window_size_data)
    IN  IF window_size.exc # "none"
        THEN [exc |-> window_size.exc, value |-> NoConfig]
        ELSE [exc |-> "none",
              value |->
                [environment |-> Get(data, "environment", "prod"),
                 base_url |-> Get(data, "base_url", "https://www.saucedemo.com/"),
                 username |-> Get(data, "username", "standard_user"),
                 password |-> Get(data, "password", "secret_sauce"),
                 timeout |-> Get(data, "timeout", 3),
                 browser |-> Get(data, "browser", "chrome"),
                 headless |-> Get(data, "headless", FALSE),
                 window_size |-> window_size.value,
                 implicit_wait |-> Get(data, "implicit_wait", 10),
                 page_load_timeout |-> Get(data, "page_load_timeout", 20)]]

from_dict(data) ==
    LET window_size_data ==
            Get(data, "window_size", [width |-> 1920, height |-> 1080])
        window_size == WindowSize(window_size_data)
    IN  IF window_size.exc # "none"
        THEN [exc |-> window_size.exc, value |-> NoConfig]
        ELSE [exc |-> "none",
              value |->
                [environment |-> Get(data, "environment", "prod"),
                 base_url |-> Get(data, "base_url", "https://www.saucedemo.com/"),
                 username |-> Get(data, "username", "standard_user"),
                 password |-> Get(data, "password", "secret_sauce"),
                 timeout |-> Get(data, "timeout", 10),
                 browser |-> Get(data, "browser", "chrome"),
                 headless |-> Get(data, "headless", FALSE),
                 window_size |-> window_size.value,
                 implicit_wait |-> Get(data, "implicit_wait", 3),
                 page_load_timeout |-> Get(data, "page_load_timeout", 20)]]

(***************************************************************************)
(* The environments directory, the process environment, the command line.  *)
(***************************************************************************)
\* a file of the environments directory is <<stem, suffix>>
ConfigFile(env_name) == <<env_name, "json">>

\* Path.exists() of a file below environments_dir
Exists(st, file) == st.dirExists /\ file \in DOMAIN st.files

\* os.getenv(key, default); an unset variable is None in the model
Getenv(env, key, default) == IF env[key] = None THEN default ELSE env[key]

\* request.config.getoption for the options of pytest_addoption;
\* an option with no default value yields <<>> when not given, <<v>> otherwise
GetOptionEnv(c) == IF c.env = None THEN "prod" ELSE c.env
GetOptionBrowser(c) == c.browser
GetOptionHeadless(c) == IF c.headless THEN <<TRUE>> ELSE <<>>
\* action="store_true" with default=True: True whether the flag is given or not
GetOptionScreenshotOnFailure(c) == TRUE
GetOptionAllureAttach(c) == TRUE

\* truth value of an optional string
Truthy(s) == s # None /\ s # ""

(***************************************************************************)
(* EnvironmentManager                                                      *)
(***************************************************************************)
\* get_available_environments globbing "*" instead of "*.json"
get_available_environments_any_suffix(st) ==
    IF ~st.dirExists
    THEN {}
    ELSE {f[1] : f \in DOMAIN st.files}

get_available_environments(st) ==
    IF ~st.dirExists
    THEN {}
    ELSE LET env_files == {f \in DOMAIN st.files : f[2] = "json"}
         IN  {f[1] : f \in env_files}

\* resolve_env_name with TEST_ENV winning over the explicit argument
resolve_env_name_env_first(env_name, env) ==
    IF env["TEST_ENV"] # None THEN env["TEST_ENV"]
    ELSE IF env_name = None THEN "prod" ELSE env_name

\* if env_name is None: env_name = os.getenv('TEST_ENV', 'prod')
resolve_env_name(env_name, env) ==
    IF env_name = None THEN Getenv(env, "TEST_ENV", "prod") ELSE env_name

\* The outcome of load_environment: the exception raised ("none" when it
\* returns), the name looked up, the names the message lists, the returned
\* reference, and the heap and the manager's _config after the call.
Raised(e, name, avail, h, m) ==
    [exc |-> e, name |-> name, available |-> avail, ref |-> NoRef,
     heap |-> h, mgr |-> m]

\* raise_not_found falling back to the defaults of an empty record
not_found_uses_defaults(h, m, name, st) ==
    [exc |-> "none", name |-> name, available |-> {},
     ref |-> Len(h) + 1,
     heap |-> Append(h, from_dict(EmptyDict).value),
     mgr |-> Len(h) + 1]

\* the branch taken when the config file does not exist
raise_not_found(h, m, name, st) ==
    LET available_envs == get_available_environments(st)
    IN  Raised("FileNotFoundError", name, available_envs, h, m)

\* keep_and_return handing back the configuration that was active before
\* the call when there was one
keep_and_return_previous(h, m, name, cfg) ==
    [exc |-> "none", name |-> name, available |-> {},
     ref |-> IF m # NoRef THEN m ELSE Len(h) + 1,
     heap |-> Append(h, cfg),
     mgr |-> Len(h) + 1]

\* self._config = EnvironmentConfig.from_dict(config_data); return self._config
\* h is the heap of EnvironmentConfig objects, m the manager's _config.
keep_and_return(h, m, name, cfg) ==
    [exc |-> "none", name |-> name, available |-> {},
     ref |-> Len(h) + 1,
     heap |-> Append(h, cfg),
     mgr |-> Len(h) + 1]

\* env the process environment, st the environments directory
load_environment(h, m, env_name, env, st) ==
    LET name == resolve_env_name(env_name, env)
        config_file == ConfigFile(name)
    IN  IF ~Exists(st, config_file)
        THEN raise_not_found(h, m, name, st)
        ELSE LET content == st.files[config_file]
             IN  IF content.kind = "malformed"
                 THEN Raised("ValueError", name, {}, h, m)
                 ELSE IF content.kind # "object"
                 THEN Raised("RuntimeError", name, {}, h, m)
                 ELSE LET r == from_dict(content.data)
                      IN  IF r.exc # "none"
                          THEN Raised("RuntimeError", name, {}, h, m)
                          ELSE keep_and_return(h, m, name, r.value)

(***************************************************************************)
(* conftest.py: the test_environment fixture body                          *)
(***************************************************************************)
test_environment(h, m, c, env, st) ==
    LET env_name == GetOptionEnv(c)
        loaded == load_environment(h, m, env_name, env, st)
        browser_override == GetOptionBrowser(c)
        headless_override == GetOptionHeadless(c)
    IN  IF loaded.exc # "none"
        THEN loaded
        ELSE LET c0 == loaded.heap[loaded.ref]
                 c1 == IF Truthy(browser_override)
                       THEN [c0 EXCEPT !.browser = browser_override]
                       ELSE c0
                 c2 == IF headless_override # <<>>
                       THEN [c1 EXCEPT !.headless = headless_override[1]]
                       ELSE c1
             IN  [loaded EXCEPT !.heap = [loaded.heap EXCEPT ![loaded.ref] = c2]]

(***************************************************************************)
(* conftest.py: the driver fixture                                         *)
(***************************************************************************)
\* the steps of the fixture that talk to the browser and can raise
DriverFaults ==
    {"none", "instantiate", "implicitly_wait", "set_page_load_timeout",
     "set_window_size"}

SupportedBrowsers == {"chrome", "firefox", "edge"}

NoSession ==
    [kind |-> None, args |-> {}, implicit_wait |-> <<>>,
     page_load_timeout |-> <<>>, window |-> <<>>]

\* effective_headless comparing CI without lower()
effective_headless_case_sensitive(cfg, env) ==
    cfg.headless \/ Getenv(env, "CI", "false") = "true"

\* test_environment.headless or os.getenv('CI', 'false').lower() == 'true'
effective_headless(cfg, env) ==
    cfg.headless \/ Lower(Getenv(env, "CI", "false")) = "true"

\* options.add_argument calls of the branch taken for browser_name
browser_options(browser_name, headless) ==
    CASE browser_name = "chrome" ->
            (IF headless THEN {"--headless"} ELSE {})
                \cup {"--no-sandbox", "--disable-dev-shm-usage"}
      [] browser_name = "firefox" ->
            (IF headless THEN {"--headless"} ELSE {})
      [] browser_name = "edge" ->
            (IF headless THEN {"--headless"} ELSE {})
      [] OTHER -> {}

\* The fixture up to its yield, with the step named by fault raising.
\* instantiated: webdriver.<Browser>(options=options) returned a session;
\* yielded: the fixture handed the session to the tests.
driver_setup(cfg, env, fault) ==
    LET browser_name == Lower(cfg.browser)
        headless == effective_headless(cfg, env)
        s0 == [NoSession EXCEPT !.kind = browser_name,
                                !.args = browser_options(browser_name, headless)]
        s1 == [s0 EXCEPT !.implicit_wait = <<cfg.implicit_wait>>]
        s2 == [s1 EXCEPT !.page_load_timeout = <<cfg.page_load_timeout>>]
        s3 == IF ~headless
              THEN [s2 EXCEPT !.window = <<cfg.window_size.width,
                                           cfg.window_size.height>>]
              ELSE s2
        out(e, inst, session) ==
            [exc |-> e, instantiated |-> inst, yielded |-> e = "none",
             session |-> session]
    IN  IF browser_name \notin SupportedBrowsers
        THEN out("ValueError", FALSE, NoSession)
        ELSE IF fault = "instantiate"
        THEN out("WebDriverException", FALSE, NoSession)
        ELSE IF fault = "implicitly_wait"
        THEN out("WebDriverException", TRUE, s0)
        ELSE IF fault = "set_page_load_timeout"
        THEN out("WebDriverException", TRUE, s1)
        ELSE IF fault = "set_window_size" /\ ~headless
        THEN out("WebDriverException", TRUE, s2)
        ELSE out("none", TRUE, s3)

\* the driver fixture with the default scope
driver_scope_function == "function"

\* scope= of the pytest.fixture decorators
test_environment_scope == "session"
driver_scope == "session"

\* pytest finalizes a fixture when the test that ends is the last one of
\* the fixture's scope
FinalizedAt(scope, lastTest) == scope = "function" \/ lastTest

(***************************************************************************)
(* conftest.py: pytest_runtest_makereport                                  *)
(***************************************************************************)
\* str.replace(old, new) for a two-character old and a one-character new,
\* on a string given as the sequence of its characters
RECURSIVE Replace2(_, _, _, _)
Replace2(s, a, b, new) ==
    IF s = <<>>
    THEN <<>>
    ELSE IF Len(s) >= 2 /\ s[1] = a /\ s[2] = b
    THEN <<new>> \o Replace2(SubSeq(s, 3, Len(s)), a, b, new)
    ELSE <<s[1]>> \o Replace2(Tail(s), a, b, new)

\* str.replace(old, new) for a one-character old
RECURSIVE Replace1(_, _, _)
Replace1(s, a, new) ==
    IF s = <<>>
    THEN <<>>
    ELSE <<IF s[1] = a THEN new ELSE s[1]>> \o Replace1(Tail(s), a, new)

\* item.name.replace("::", "_").replace(" ", "_")
test_name_of(name) == Replace1(Replace2(name, ":", ":", "_"), " ", "_")

\* datetime.now().strftime("%Y%m%d_%H%M%S") of the clock value
Strftime(now) == IF now = 0 THEN "T0" ELSE IF now = 1 THEN "T1"
                 ELSE IF now = 2 THEN "T2" ELSE "T3"

\* f"FAILED_{test_name}_{env_name}_{browser_name}_{timestamp}.png"
failure_filename(test_name, env_name, browser_name, timestamp) ==
    <<"FAILED", "_">> \o test_name
        \o <<"_", env_name, "_", browser_name, "_", timestamp, ".png">>

ScreenshotsDir == "results/screenshots"

\* the steps of the capture that can raise
CaptureFaults ==
    {"none", "mkdir", "get_screenshot_as_png", "open", "write", "attach"}

NoReport == [when |-> "none", outcome |-> "none", screenshot_path |-> <<>>]

\* should_capture without the test of the phase
should_capture_any_phase(rp) == rp.outcome = "failed"

\* if rep.when == "call" and rep.failed
should_capture(rp) == rp.when = "call" /\ rp.outcome = "failed"

\* The body of the try block, with the step named by fault raising.
\* created: the file the block created and whether all its bytes were
\* written; path: the screenshot_path it set on the report, <<>> if none.
capture_steps(it, h, test_env, allure_attach_enabled, now, fault) ==
    LET test_name == test_name_of(it.name)
        env_name == h[test_env].environment
        browser_name == h[test_env].browser
        filename ==
            failure_filename(test_name, env_name, browser_name, Strftime(now))
        file(complete) ==
            [dir |-> ScreenshotsDir, name |-> filename, complete |-> complete]
        out(e, made, files, names, path) ==
            [exc |-> e, mkdir |-> made, created |-> files, attached |-> names,
             path |-> path]
    IN  IF fault = "mkdir"
        THEN out("OSError", FALSE, {}, {}, <<>>)
        ELSE IF fault = "get_screenshot_as_png"
        THEN out("WebDriverException", TRUE, {}, {}, <<>>)
        ELSE IF fault = "open"
        THEN out("OSError", TRUE, {}, {}, <<>>)
        ELSE IF fault = "write"
        THEN out("OSError", TRUE, {file(FALSE)}, {}, <<>>)
        ELSE IF fault = "attach" /\ allure_attach_enabled
        THEN out("Exception", TRUE, {file(TRUE)}, {}, <<>>)
        ELSE out("none", TRUE, {file(TRUE)},
                 IF allure_attach_enabled
                 THEN {<<"Failure Screenshot", Upper(env_name),
                         Upper(browser_name)>>}
                 ELSE {},
                 <<ScreenshotsDir, filename>>)

\* the exceptions of the capture steps, all subclasses of Exception
CaptureExceptions == {"OSError", "WebDriverException", "Exception"}

\* escapes_handler for a handler that is except OSError
escapes_handler_oserror_only(e) == e # "OSError"

\* try: ... except Exception as e: print(...)
\* TRUE when exception e of the try block is not caught and leaves the hook
escapes_handler(e) == e \notin CaptureExceptions

\* The hook after its yield. rp is the report pytest made, it the test item
\* (its name and funcargs), c the command line, h the heap of config objects,
\* now the clock, fault the capture step that raises.
pytest_runtest_makereport(rp, it, c, h, now, fault) ==
    LET quiet ==
            [raised |-> FALSE, rep |-> rp, mkdir |-> FALSE, created |-> {},
             attached |-> {}]
    IN  IF ~should_capture(rp)
        THEN quiet
        ELSE
        LET screenshot_enabled == GetOptionScreenshotOnFailure(c)
            allure_attach_enabled == GetOptionAllureAttach(c)
            driver == Get(it.funcargs, "driver", NoRef)
            test_env == Get(it.funcargs, "test_environment", NoRef)
        IN  IF ~(screenshot_enabled /\ driver # NoRef /\ test_env # NoRef)
            THEN quiet
            ELSE
            LET r == capture_steps(it, h, test_env, allure_attach_enabled,
                                   now, fault)
            IN  [raised |-> r.exc # "none" /\ escapes_handler(r.exc),
                 rep |-> [rp EXCEPT !.screenshot_path = r.path],
                 mkdir |-> r.mkdir,
                 created |-> r.created,
                 attached |-> r.attached]

(***************************************************************************)
(* config.py: the ConfigProxy facade over environment_manager.config       *)
(***************************************************************************)
\* the config property of the manager: load the default environment when
\* nothing is loaded, return self._config
manager_config(h, m, env, st) ==
    IF m = NoRef
    THEN load_environment(h, m, None, env, st)
    ELSE [exc |-> "none", name |-> None, available |-> {}, ref |-> m,
          heap |-> h, mgr |-> m]

\* ConfigProxy._get_config: p is the proxy's _config; the manager is asked
\* only while the proxy holds nothing
get_config(p, h, m, env, st) ==
    IF p = NoRef
    THEN LET r == manager_config(h, m, env, st)
         IN  [exc |-> r.exc, proxy |-> r.ref, asked |-> TRUE, loaded |-> r]
    ELSE [exc |-> "none", proxy |-> p, asked |-> FALSE,
          loaded |-> [exc |-> "none", name |-> None, available |-> {},
                      ref |-> p, heap |-> h, mgr |-> m]]

FacadeProperties ==
    {"BASE_URL", "USERNAME", "PASSWORD", "TIMEOUT", "BROWSER", "HEADLESS",
     "WINDOW_WIDTH", "WINDOW_HEIGHT", "IMPLICIT_WAIT", "PAGE_LOAD_TIMEOUT",
     "ENVIRONMENT"}

\* the property of the proxy read off an EnvironmentConfig
facade_get(cfg, property) ==
    CASE property = "BASE_URL" -> cfg.base_url
      [] property = "USERNAME" -> cfg.username
      [] property = "PASSWORD" -> cfg.password
      [] property = "TIMEOUT" -> cfg.timeout
      [] property = "BROWSER" -> cfg.browser
      [] property = "HEADLESS" -> cfg.headless
      [] property = "WINDOW_WIDTH" -> cfg.window_size.width
      [] property = "WINDOW_HEIGHT" -> cfg.window_size.height
      [] property = "IMPLICIT_WAIT" -> cfg.implicit_wait
      [] property = "PAGE_LOAD_TIMEOUT" -> cfg.page_load_timeout
      [] property = "ENVIRONMENT" -> cfg.environment

(***************************************************************************)
(* utils/whatsapp_config.py and utils/whatsapp_notifier.py.  A string is   *)
(* the sequence of its characters; a value that may be None is <<>> for    *)
(* None and <<s>> for the string s.                                        *)
(***************************************************************************)
Absent == <<>>
Some(s) == <<s>>

Whitespace == {" ", "\t", "\n"}

RECURSIVE lstrip(_)
lstrip(s) ==
    IF s # <<>> /\ Head(s) \in Whitespace THEN lstrip(Tail(s)) ELSE s

RECURSIVE rstrip(_)
rstrip(s) ==
    IF s # <<>> /\ s[Len(s)] \in Whitespace
    THEN rstrip(SubSeq(s, 1, Len(s) - 1)) ELSE s

strip(s) == rstrip(lstrip(s))

startswith(s, prefix) ==
    Len(s) >= Len(prefix) /\ SubSeq(s, 1, Len(prefix)) = prefix

\* bool(x) of a str or None
NonEmpty(x) == x # Absent /\ x[1] # <<>>

AC == <<"A", "C">>
WhatsappPrefix == <<"w", "h", "a", "t", "s", "a", "p", "p", ":", "+">>
SandboxNumber ==
    WhatsappPrefix \o <<"1", "4", "1", "5", "5", "2", "3", "8", "8", "8", "6">>
MinTokenLen == 30

\* os.getenv(env_key, default_value)
get_config_value(env, env_key, default_value) ==
    IF env[env_key] = Absent THEN default_value ELSE env[env_key]

\* WhatsAppConfig.__init__
WhatsAppConfig(env) ==
    [account_sid |-> get_config_value(env, "TWILIO_ACCOUNT_SID", Absent),
     auth_token |-> get_config_value(env, "TWILIO_AUTH_TOKEN", Absent),
     from_number |->
         get_config_value(env, "TWILIO_WHATSAPP_FROM", Some(SandboxNumber)),
     to_number |-> get_config_value(env, "TWILIO_WHATSAPP_TO", Absent)]

RequiredFields == {"account_sid", "auth_token", "from_number", "to_number"}

\* all(field and field.strip() for field in required_fields)
is_configured(c) ==
    \A f \in RequiredFields : NonEmpty(c[f]) /\ strip(c[f][1]) # <<>>

\* the first check that fails names the error
validate_credentials(c) ==
    IF ~NonEmpty(c.account_sid) \/ ~startswith(c.account_sid[1], AC)
    THEN [valid |-> FALSE, error |-> "account_sid"]
    ELSE IF ~NonEmpty(c.auth_token) \/ Len(c.auth_token[1]) < MinTokenLen
    THEN [valid |-> FALSE, error |-> "auth_token"]
    ELSE IF ~NonEmpty(c.from_number)
              \/ ~startswith(c.from_number[1], WhatsappPrefix)
    THEN [valid |-> FALSE, error |-> "from_number"]
    ELSE IF ~NonEmpty(c.to_number)
              \/ ~startswith(c.to_number[1], WhatsappPrefix)
    THEN [valid |-> FALSE, error |-> "to_number"]
    ELSE [valid |-> TRUE, error |-> "none"]

\* self.account_sid[:10] of None is a TypeError; the other lines print
\* the fields as they are; the exception the method ends with
print_config_status(c) ==
    IF c.account_sid = Absent THEN "TypeError" ELSE "none"

\* what can go wrong inside the try block
SendFaults == {"none", "client", "create"}
\* additional_info: None, a dict, or a truthy object without get
AdditionalInfos == {"None", "dict", "not a dict"}

Returned(b, creates, sent) ==
    [exc |-> "none", ret |-> <<b>>, creates |-> creates, sent |-> sent]

\* the try block: Client(...), the message body, client.messages.create(...);
\* except Exception turns whatever it raises into return False
send_in_try(c, status, additional_info, fault) ==
    IF fault = "client" THEN Returned(FALSE, 0, 0)
    ELSE IF additional_info = "not a dict" THEN Returned(FALSE, 0, 0)
    ELSE IF fault = "create" THEN Returned(FALSE, 1, 0)
    ELSE Returned(TRUE, 1, 1)

send_whatsapp_notification(c, status, additional_info, fault) ==
    IF ~is_configured(c)
    THEN IF print_config_status(c) # "none"
         THEN [exc |-> print_config_status(c), ret |-> <<>>,
               creates |-> 0, sent |-> 0]
         ELSE Returned(FALSE, 0, 0)
    ELSE IF ~validate_credentials(c).valid THEN Returned(FALSE, 0, 0)
    ELSE send_in_try(c, status, additional_info, fault)

(***************************************************************************)
(* State                                                                   *)
(***************************************************************************)
VARIABLES
    fdInput,     \* the dict handed to from_dict
    fdResult,    \* what from_dict returned for it
    store,       \* the environments directory
    osenv,       \* the process environment: TEST_ENV, CI
    cli,         \* the pytest command line: --env, --browser, --headless
    heap,        \* the EnvironmentConfig objects created so far
    mgrConfig,   \* environment_manager._config: a reference into heap
    loads,       \* number of resolver calls made
    prevCall,    \* the resolver call before the last one
    lastCall,    \* the last resolver call and its outcome
    phase,       \* where pytest is in the run of the current test
    testIdx,     \* number of tests started
    item,        \* the current test item: its name, requested fixtures, funcargs
    envFixture,  \* pytest's cached result of the test_environment fixture
    driverFixture, \* pytest's cached result of the driver fixture
    browser,     \* the browser sessions: instantiated, quit, navigations
    bodies,      \* number of test bodies executed
    rep,         \* the report of the phase that just completed
    hook,        \* what pytest_runtest_makereport did for the current test
    fs,          \* the files below results/
    clock,       \* the wall clock, in whole seconds
    waConfig,    \* whatsapp_config, built when the module is imported
    waCall,      \* the last send_whatsapp_notification call and how it ended
    waSends,     \* number of send_whatsapp_notification calls made
    proxyConfig, \* config._config of the ConfigProxy: a reference into heap
    facadeRead   \* the last read of a property of the facade

fdVars == <<fdInput, fdResult>>
inputVars == <<store, osenv, cli>>
mgrVars == <<heap, mgrConfig>>
callVars == <<loads, prevCall, lastCall>>
sessionVars ==
    <<phase, testIdx, item, envFixture, driverFixture, browser, bodies, rep,
      hook, fs, clock>>
notifyVars == <<waConfig, waCall, waSends>>
facadeVars == <<proxyConfig, facadeRead>>
vars ==
    <<fdVars, notifyVars, facadeVars, inputVars, mgrVars, callVars,
      sessionVars>>

NoCall ==
    [op |-> "none", arg |-> None, exc |-> "none", name |-> None,
     available |-> {}, ref |-> NoRef]

\* the record of a call from the operator's result
CallRecord(op, arg, r) ==
    [op |-> op, arg |-> arg, exc |-> r.exc, name |-> r.name,
     available |-> r.available, ref |-> r.ref]

RecordCall(op, arg, r) ==
    /\ heap' = r.heap
    /\ mgrConfig' = r.mgr
    /\ loads' = loads + 1
    /\ prevCall' = lastCall
    /\ lastCall' = CallRecord(op, arg, r)

(***************************************************************************)
(* The contents the resolver runs draw the directory from.                 *)
(***************************************************************************)
FullRecord == ObjectRecord([k \in Fields |-> RecordValue[k]])
EmptyRecord == ObjectRecord(EmptyDict)
WidthOnlyRecord == ObjectRecord([k \in {"window_size"} |-> [width |-> 1280]])

Contents == {EmptyRecord, FullRecord, WidthOnlyRecord, MalformedRecord, ArrayRecord}

\* environments/ holds any of dev.json, prod.json and a staging.txt
StoreFiles == {<<"dev", "json">>, <<"prod", "json">>, <<"staging", "txt">>}

Stores ==
    {[dirExists |-> FALSE, files |-> <<>>]} \cup
    UNION {{[dirExists |-> TRUE, files |-> f] : f \in [S -> Contents]} :
               S \in SUBSET StoreFiles}

\* an environments directory holding dev.json, or dev.json and prod.json
Dir(files) == [dirExists |-> TRUE, files |-> files]
DevFile(content) == [f \in {ConfigFile("dev")} |-> content]
DevProdFiles(dev, prod) ==
    [f \in {ConfigFile("dev"), ConfigFile("prod")} |->
        IF f = ConfigFile("dev") THEN dev ELSE prod]

FdIdle ==
    /\ fdInput = EmptyDict
    /\ fdResult = [exc |-> "not applied", value |-> NoConfig]

MgrInit ==
    /\ heap = <<>>
    /\ mgrConfig = NoRef
    /\ loads = 0
    /\ prevCall = NoCall
    /\ lastCall = NoCall

NoEnv ==
    [k \in {"TWILIO_ACCOUNT_SID", "TWILIO_AUTH_TOKEN", "TWILIO_WHATSAPP_FROM",
             "TWILIO_WHATSAPP_TO"} |-> Absent]
NoSend ==
    [status |-> "none", exc |-> "none", ret |-> <<>>, creates |-> 0,
     sent |-> 0]

\* the notifier imported and not called
NotifyIdle ==
    /\ waConfig = WhatsAppConfig(NoEnv)
    /\ waCall = NoSend
    /\ waSends = 0

\* ref: the object the value was read from; mgr: the manager's _config
\* when the read returned
NoRead == [property |-> "none", exc |-> "none", ref |-> NoRef, mgr |-> NoRef]

\* config.py imported, no property read
FacadeIdle ==
    /\ proxyConfig = NoRef
    /\ facadeRead = NoRead

NoItem == [name |-> <<>>, fixtures |-> {}, funcargs |-> <<>>]
Unset == [state |-> "unset", ref |-> NoRef]
\* attempts, instantiated, yields, quits, gets: the number of calls of a
\* webdriver constructor, of sessions webdriver created, of sessions the
\* driver fixture yielded, of quit() and get() calls
NoBrowser ==
    [attempts |-> 0, instantiated |-> 0, yields |-> 0, live |-> FALSE,
     quits |-> 0, gets |-> 0, url |-> None, session |-> NoSession]
\* callFailed: the call phase of the current test was reported failed;
\* fault: the capture step that failed for that report
NoHook ==
    [raised |-> FALSE, created |-> {}, attached |-> {}, calls |-> 0,
     callFailed |-> FALSE, fault |-> "none"]

\* pytest before the first test
SessionInit ==
    /\ phase = "idle"
    /\ testIdx = 0
    /\ item = NoItem
    /\ envFixture = Unset
    /\ driverFixture = Unset
    /\ browser = NoBrowser
    /\ bodies = 0
    /\ rep = NoReport
    /\ hook = NoHook
    /\ fs = {}
    /\ clock = 0

(***************************************************************************)
(* from_dict applied to every record                                       *)
(***************************************************************************)
NotApplied == [exc |-> "not applied", value |-> NoConfig]

FromDictInit ==
    /\ fdInput \in AllObjects
    /\ fdResult = NotApplied
    /\ store = [dirExists |-> FALSE, files |-> <<>>]
    /\ osenv = [TEST_ENV |-> None, CI |-> None]
    /\ cli = [env |-> None, browser |-> None, headless |-> FALSE]
    /\ MgrInit
    /\ NotifyIdle
    /\ FacadeIdle
    /\ SessionInit

ApplyFromDict ==
    /\ fdResult = NotApplied
    /\ fdResult' = from_dict(fdInput)
    /\ UNCHANGED <<fdInput, notifyVars, facadeVars, inputVars, mgrVars, callVars,
                   sessionVars>>

SpecFromDict == FromDictInit /\ [][ApplyFromDict]_vars

(***************************************************************************)
(* The notifier called in a process whose environment set any of the       *)
(* TWILIO_* variables                                                      *)
(***************************************************************************)
MaxSends == 2

Token(n) == [i \in 1..n |-> "x"]

NotifyEnvs ==
    [TWILIO_ACCOUNT_SID :
         {Absent, Some(<<>>), Some(<<" ">>), Some(AC \o <<"1">>),
          Some(<<"S", "K">>)},
     TWILIO_AUTH_TOKEN :
         {Absent, Some(<<>>), Some(Token(MinTokenLen - 1)),
          Some(Token(MinTokenLen))},
     TWILIO_WHATSAPP_FROM :
         {Absent, Some(<<"+", "1">>), Some(WhatsappPrefix \o <<"1">>)},
     TWILIO_WHATSAPP_TO :
         {Absent, Some(<<" ">>), Some(<<"+", "2">>),
          Some(WhatsappPrefix \o <<"2">>)}]

NotifyInit ==
    /\ FdIdle
    /\ store = [dirExists |-> FALSE, files |-> <<>>]
    /\ osenv = [TEST_ENV |-> None, CI |-> None]
    /\ cli = [env |-> None, browser |-> None, headless |-> FALSE]
    /\ MgrInit
    /\ SessionInit
    /\ \E env \in NotifyEnvs : waConfig = WhatsAppConfig(env)
    /\ waCall = NoSend
    /\ waSends = 0
    /\ FacadeIdle

SendNotification ==
    /\ waSends < MaxSends
    /\ \E status \in {"success", "failure"}, info \in AdditionalInfos,
          fault \in SendFaults :
          LET r == send_whatsapp_notification(waConfig, status, info, fault)
          IN  waCall' = [status |-> status, exc |-> r.exc, ret |-> r.ret,
                         creates |-> r.creates, sent |-> r.sent]
    /\ waSends' = waSends + 1
    /\ UNCHANGED <<waConfig, fdVars, facadeVars, inputVars, mgrVars, callVars,
                   sessionVars>>

SpecNotify == NotifyInit /\ [][SendNotification]_vars

(***************************************************************************)
(* The resolver called repeatedly in one process                           *)
(***************************************************************************)
ResolveInit ==
    /\ FdIdle
    /\ store \in Stores
    /\ osenv \in [TEST_ENV : {None, "dev", "staging"}, CI : {None}]
    /\ cli \in [env : {None, "dev", "staging"}, browser : {None, "edge"},
                headless : BOOLEAN]
    /\ MgrInit
    /\ NotifyIdle
    /\ FacadeIdle
    /\ SessionInit

\* environment_manager.load_environment(arg) called directly
CallLoadEnvironment ==
    /\ loads < MaxLoads
    /\ \E arg \in {None, "dev", "staging"} :
          RecordCall("load_environment", arg,
                     load_environment(heap, mgrConfig, arg, osenv, store))
    /\ UNCHANGED <<fdVars, notifyVars, facadeVars, inputVars, sessionVars>>

\* the body of the test_environment fixture run
CallTestEnvironment ==
    /\ loads < MaxLoads
    /\ RecordCall("test_environment", GetOptionEnv(cli),
                  test_environment(heap, mgrConfig, cli, osenv, store))
    /\ UNCHANGED <<fdVars, notifyVars, facadeVars, inputVars, sessionVars>>

ResolveNext == CallLoadEnvironment \/ CallTestEnvironment

SpecResolve == ResolveInit /\ [][ResolveNext]_vars

(***************************************************************************)
(* The facade read between the resolver calls of one process               *)
(***************************************************************************)
FacadeStores ==
    {[dirExists |-> FALSE, files |-> <<>>],
     Dir(DevFile(FullRecord)),
     Dir(DevProdFiles(FullRecord, EmptyRecord)),
     Dir(DevProdFiles(EmptyRecord, EmptyRecord)),
     Dir(DevProdFiles(MalformedRecord, FullRecord))}

FacadeInit ==
    /\ FdIdle
    /\ store \in FacadeStores
    /\ osenv \in [TEST_ENV : {None, "dev"}, CI : {None}]
    /\ cli \in [env : {None, "dev"}, browser : {None, "edge"},
                headless : BOOLEAN]
    /\ MgrInit
    /\ NotifyIdle
    /\ FacadeIdle
    /\ SessionInit

\* config.<property> read; the first read asks the manager, which loads the
\* default environment when nothing is loaded
ReadFacade ==
    /\ \E property \in FacadeProperties :
          LET g == get_config(proxyConfig, heap, mgrConfig, osenv, store)
              loading == g.asked /\ mgrConfig = NoRef
          IN  /\ loading => loads < MaxLoads
              /\ IF loading
                 THEN RecordCall("load_environment", None, g.loaded)
                 ELSE UNCHANGED <<mgrVars, callVars>>
              /\ proxyConfig' = g.proxy
              /\ facadeRead' = [property |-> property, exc |-> g.exc,
                                ref |-> g.proxy, mgr |-> g.loaded.mgr]
    /\ UNCHANGED <<fdVars, notifyVars, inputVars, sessionVars>>

FacadeNext == CallLoadEnvironment \/ CallTestEnvironment \/ ReadFacade

SpecFacade == FacadeInit /\ [][FacadeNext]_vars

(***************************************************************************)
(* One pytest session: for each collected test the setup phase (the        *)
(* fixtures in the order pytest fills them: test_environment, driver,      *)
(* open_base_url, then the fixtures the test names), the call phase, the   *)
(* teardown phase, and pytest_runtest_makereport after each phase.         *)
(***************************************************************************)
\* item.name of the collected tests, as character sequences
TestNames == {<<"t", "1">>, <<"a", ":", ":", " ", "b">>}

\* tests/test_login.py: a test asks for driver, or for driver and take_screenshot
TestFixtures == {{"driver"}, {"driver", "take_screenshot"}}

\* the fixtures conftest.py defines
DefinedFixtures ==
    {"test_environment", "driver", "open_base_url", "screenshot_helper"}

CIValues == {None, "true", "TRUE", "1", "false"}

\* the environments directories of the sessions: none, dev.json alone,
\* dev.json with prod.json, usable or not
SessionStores ==
    {[dirExists |-> FALSE, files |-> <<>>],
     Dir(DevFile(FullRecord)),
     Dir(DevProdFiles(EmptyRecord, FullRecord)),
     Dir(DevProdFiles(MalformedRecord, EmptyRecord)),
     Dir(DevProdFiles(WidthOnlyRecord, ArrayRecord))}

Init ==
    /\ FdIdle
    /\ store \in SessionStores
    /\ osenv \in [TEST_ENV : {None}, CI : CIValues]
    /\ cli \in [env : {None, "dev"}, browser : {None, "edge", "safari"},
                headless : BOOLEAN]
    /\ MgrInit
    /\ NotifyIdle
    /\ FacadeIdle
    /\ SessionInit

LastTest == testIdx = MaxTests

SetupFailed == [when |-> "setup", outcome |-> "failed", screenshot_path |-> <<>>]

\* pytest picks the next collected test and starts its setup phase
StartTest ==
    /\ phase = "idle"
    /\ testIdx < MaxTests
    /\ testIdx' = testIdx + 1
    /\ \E n \in TestNames, f \in TestFixtures :
          item' = [name |-> n, fixtures |-> f, funcargs |-> <<>>]
    /\ rep' = NoReport
    /\ hook' = NoHook
    /\ phase' = "setup_env"
    /\ UNCHANGED <<fdVars, notifyVars, facadeVars, inputVars, mgrVars, callVars, envFixture,
                   driverFixture, browser, bodies, fs, clock>>

AddFuncarg(it, k, v) ==
    [it EXCEPT !.funcargs =
        [x \in DOMAIN it.funcargs \cup {k} |->
            IF x = k THEN v ELSE it.funcargs[x]]]

\* the test_environment fixture: run once per scope, its result or its
\* exception cached by pytest
SetupTestEnvironment ==
    /\ phase = "setup_env"
    /\ IF envFixture.state = "unset"
       THEN LET r == test_environment(heap, mgrConfig, cli, osenv, store)
            IN  /\ RecordCall("test_environment", GetOptionEnv(cli), r)
                /\ envFixture' =
                       IF r.exc = "none"
                       THEN [state |-> "ok", ref |-> r.ref]
                       ELSE [state |-> "raised", ref |-> NoRef]
       ELSE UNCHANGED <<mgrVars, callVars, envFixture>>
    /\ IF envFixture'.state = "ok"
       THEN /\ item' = AddFuncarg(item, "test_environment", envFixture'.ref)
            /\ phase' = "setup_driver"
            /\ UNCHANGED rep
       ELSE /\ rep' = SetupFailed
            /\ phase' = "report"
            /\ UNCHANGED item
    /\ UNCHANGED <<fdVars, notifyVars, facadeVars, inputVars, testIdx, driverFixture, browser, bodies,
                   hook, fs, clock>>

\* the driver fixture up to its yield
SetupDriver ==
    /\ phase = "setup_driver"
    /\ IF driverFixture.state = "unset"
       THEN \E fault \in DriverFaults :
              LET r == driver_setup(heap[envFixture.ref], osenv, fault)
              IN  /\ driverFixture' =
                         IF r.yielded
                         THEN [state |-> "ok", ref |-> 1]
                         ELSE [state |-> "raised", ref |-> NoRef]
                  /\ browser' =
                         IF r.instantiated
                         THEN [browser EXCEPT
                                   !.attempts = @ + 1,
                                   !.instantiated = @ + 1,
                                   !.yields = IF r.yielded THEN @ + 1 ELSE @,
                                   !.live = TRUE,
                                   !.session = r.session]
                         ELSE [browser EXCEPT !.attempts = @ + 1]
       ELSE UNCHANGED <<driverFixture, browser>>
    /\ IF driverFixture'.state = "ok"
       THEN /\ item' = AddFuncarg(item, "driver", driverFixture'.ref)
            /\ phase' = "setup_nav"
            /\ UNCHANGED rep
       ELSE /\ rep' = SetupFailed
            /\ phase' = "report"
            /\ UNCHANGED item
    /\ UNCHANGED <<fdVars, notifyVars, facadeVars, inputVars, mgrVars, callVars, testIdx, envFixture,
                   bodies, hook, fs, clock>>

\* the open_base_url fixture: driver.get(test_environment.base_url); loaded
\* is whether the page loaded or get raised
open_base_url_without_get(b, test_env, loaded) == b

open_base_url(b, test_env, loaded) ==
    [b EXCEPT !.gets = @ + 1,
              !.url = IF loaded THEN test_env.base_url ELSE @]

\* pytest fills the autouse fixture of every test after the fixtures it
\* depends on
OpenBaseUrl ==
    /\ phase = "setup_nav"
    /\ \E loaded \in BOOLEAN :
          /\ browser' = open_base_url(browser, heap[envFixture.ref], loaded)
          /\ IF loaded
             THEN /\ item' = AddFuncarg(item, "open_base_url", NoRef)
                  /\ phase' = "setup_rest"
                  /\ UNCHANGED rep
             ELSE /\ rep' = SetupFailed
                  /\ phase' = "report"
                  /\ UNCHANGED item
    /\ UNCHANGED <<fdVars, notifyVars, facadeVars, inputVars, mgrVars, callVars, testIdx, envFixture,
                   driverFixture, bodies, hook, fs, clock>>

\* pytest fills the remaining fixtures the test function names; a name no
\* fixture defines is a lookup error of the setup phase
FillFixtures ==
    /\ phase = "setup_rest"
    /\ rep' = IF item.fixtures \subseteq DefinedFixtures
              THEN [SetupFailed EXCEPT !.outcome = "passed"]
              ELSE SetupFailed
    /\ phase' = "report"
    /\ UNCHANGED <<fdVars, notifyVars, facadeVars, inputVars, mgrVars, callVars, testIdx, item,
                   envFixture, driverFixture, browser, bodies, hook, fs, clock>>

\* the page the session shows once the login went through
HomePage == "inventory"

\* the test body: the page objects drive the session with config.USERNAME
\* and config.PASSWORD read through the facade (the manager's configuration
\* is loaded by then), then the assert on is_home_page_displayed; a login
\* that went through left the base URL
CallTestBody ==
    /\ phase = "call"
    /\ bodies' = bodies + 1
    /\ LET g == get_config(proxyConfig, heap, mgrConfig, osenv, store)
       IN  /\ proxyConfig' = g.proxy
           /\ facadeRead' = [property |-> "PASSWORD", exc |-> g.exc,
                             ref |-> g.proxy, mgr |-> mgrConfig]
    /\ \E o \in {"passed", "failed", "skipped"} :
          /\ rep' = [when |-> "call", outcome |-> o, screenshot_path |-> <<>>]
          /\ browser' = IF o = "passed"
                        THEN [browser EXCEPT !.url = HomePage]
                        ELSE browser
    /\ phase' = "report"
    /\ UNCHANGED <<fdVars, notifyVars, inputVars, mgrVars, callVars, testIdx,
                   item, envFixture, driverFixture, hook, fs, clock>>

\* the teardown phase: pytest finalizes the fixtures whose scope ends with
\* this test; the driver fixture resumes after its yield and calls quit
Teardown ==
    /\ phase = "teardown"
    /\ \E quitOk \in BOOLEAN :
          IF FinalizedAt(driver_scope, LastTest) /\ driverFixture.state = "ok"
          THEN /\ browser' = [browser EXCEPT !.quits = @ + 1, !.live = FALSE]
               /\ driverFixture' = Unset
               /\ rep' = [when |-> "teardown",
                          outcome |-> IF quitOk THEN "passed" ELSE "failed",
                          screenshot_path |-> <<>>]
          ELSE /\ driverFixture' =
                      IF FinalizedAt(driver_scope, LastTest)
                      THEN Unset ELSE driverFixture
               /\ rep' = [when |-> "teardown", outcome |-> "passed",
                          screenshot_path |-> <<>>]
               /\ UNCHANGED browser
    /\ envFixture' = IF FinalizedAt(test_environment_scope, LastTest)
                     THEN Unset ELSE envFixture
    /\ phase' = "report"
    /\ UNCHANGED <<fdVars, notifyVars, facadeVars, inputVars, mgrVars, callVars, testIdx, item, bodies,
                   hook, fs, clock>>

\* a file written replaces the file of the same path
WriteFiles(files, created) ==
    {f \in files : \A g \in created : ~(g.dir = f.dir /\ g.name = f.name)}
        \cup created

\* pytest makes the report of the phase and calls pytest_runtest_makereport,
\* then goes on to the next phase
MakeReport ==
    /\ phase = "report"
    /\ \E fault \in CaptureFaults :
          LET r == pytest_runtest_makereport(rep, item, cli, heap, clock, fault)
              failedCall == rep.when = "call" /\ rep.outcome = "failed"
          IN  /\ rep' = IF r.raised
                        THEN [rep EXCEPT !.outcome = "INTERNALERROR"]
                        ELSE r.rep
              /\ hook' = [raised |-> hook.raised \/ r.raised,
                          created |-> hook.created \cup r.created,
                          attached |-> hook.attached \cup r.attached,
                          calls |-> hook.calls + 1,
                          callFailed |-> hook.callFailed \/ failedCall,
                          fault |-> IF failedCall THEN fault ELSE hook.fault]
              /\ fs' = WriteFiles(fs, r.created)
              \* an exception leaving the hook is an internal error that
              \* ends the pytest run
              /\ phase' =
                    CASE r.raised -> "done"
                      [] rep.when = "setup" /\ rep.outcome = "passed" -> "call"
                      [] rep.when = "setup" /\ rep.outcome # "passed" -> "teardown"
                      [] rep.when = "call" -> "teardown"
                      [] OTHER -> IF LastTest THEN "done" ELSE "idle"
    /\ item' = IF rep.when = "teardown" THEN NoItem ELSE item
    /\ UNCHANGED <<fdVars, notifyVars, facadeVars, inputVars, mgrVars, callVars, testIdx,
                   envFixture, driverFixture, browser, bodies, clock>>

\* a second passes while the test body runs
Tick ==
    /\ phase = "call"
    /\ clock < MaxClock
    /\ clock' = clock + 1
    /\ UNCHANGED <<fdVars, notifyVars, facadeVars, inputVars, mgrVars, callVars, phase, testIdx, item,
                   envFixture, driverFixture, browser, bodies, rep, hook, fs>>

Next ==
    \/ StartTest
    \/ SetupTestEnvironment
    \/ SetupDriver
    \/ OpenBaseUrl
    \/ FillFixtures
    \/ CallTestBody
    \/ Teardown
    \/ MakeReport
    \/ Tick

Spec == Init /\ [][Next]_vars

(***************************************************************************)
(* Properties                                                              *)
(***************************************************************************)
\* the session of the run is over: every test was reported
SessionOver == phase = "done"

\* C1: in a session in which the driver fixture handed a browser session to
\* the tests, quit is called exactly once, after the last test: never twice,
\* never while a test is still to run, and once the session is over not zero
\* times.
C1_QuitExactlyOnceAfterLastTest ==
    /\ browser.quits <= 1
    /\ browser.quits = 1 =>
          /\ browser.yields = 1
          /\ testIdx = MaxTests
          /\ phase \in {"report", "done"}
          /\ rep.when = "teardown"
    /\ (SessionOver /\ browser.yields > 0) => browser.quits = 1

\* a finished session with a test that failed in its body (its screenshot is
\* on disk), a test that never reached its body, and the one quit
C1_Witness ==
    /\ SessionOver
    /\ browser.yields = 1
    /\ browser.quits = 1
    /\ fs # {}
    /\ bodies < MaxTests

\* the name the priority rule gives: argument, then TEST_ENV, then "prod"
NameByPriority(arg, env) ==
    IF arg # None THEN arg
    ELSE IF env["TEST_ENV"] # None THEN env["TEST_ENV"]
    ELSE "prod"

\* C2: every call of load_environment looks up the explicit argument when
\* one is given, otherwise TEST_ENV when it is set, otherwise "prod".
C2_NamePriority ==
    lastCall.op # "none" => lastCall.name = NameByPriority(lastCall.arg, osenv)

\* an explicit argument given while TEST_ENV names another environment
C2_Witness ==
    /\ lastCall.op = "load_environment"
    /\ lastCall.arg = "dev"
    /\ osenv["TEST_ENV"] = "staging"
    /\ lastCall.name = "dev"
    /\ prevCall.op = "load_environment"
    /\ prevCall.arg = None
    /\ prevCall.name = "staging"

\* the names of the record files <name>.json present in the directory
PresentRecordNames ==
    {n \in {f[1] : f \in StoreFiles} :
        store.dirExists /\ <<n, "json">> \in DOMAIN store.files}

HasRecordFile(n) == n \in PresentRecordNames

\* C3: for a name with no record file load_environment fails with
\* FileNotFoundError and the message lists exactly the names of the record
\* files present, the empty list when the directory does not exist.
C3_NotFoundListsPresentNames ==
    (lastCall.op # "none" /\ ~HasRecordFile(lastCall.name)) =>
        /\ lastCall.exc = "FileNotFoundError"
        /\ lastCall.available = PresentRecordNames

\* "staging" asked for with dev.json, prod.json and staging.txt present
C3_Witness ==
    /\ lastCall.op = "load_environment"
    /\ lastCall.name = "staging"
    /\ DOMAIN store.files = StoreFiles
    /\ lastCall.exc = "FileNotFoundError"
    /\ lastCall.available = {"dev", "prod"}

\* the documented default of each optional field
DocumentedDefault ==
    [base_url |-> "https://www.saucedemo.com/",
     username |-> "standard_user",
     password |-> "secret_sauce",
     timeout |-> 10,
     browser |-> "chrome",
     headless |-> FALSE,
     window_size |-> [width |-> 1920, height |-> 1080],
     implicit_wait |-> 3,
     page_load_timeout |-> 20]

OptionalFields == DOMAIN DocumentedDefault

\* C4: the configuration resolved from a record has each omitted optional
\* field at its documented default and each present field at the record's
\* value.
C4_OmittedFieldsDefaulted ==
    fdResult.exc = "none" =>
        \A f \in OptionalFields :
            IF f \in DOMAIN fdInput
            THEN fdResult.value[f] = fdInput[f]
            ELSE fdResult.value[f] = DocumentedDefault[f]

\* the empty record resolved
C4_Witness ==
    /\ fdInput = EmptyDict
    /\ fdResult.exc = "none"
    /\ fdResult.value.window_size = [width |-> 1920, height |-> 1080]
    /\ fdResult.value.headless = FALSE

\* the record stored for the name of the last call omits the field
LastRecordOmits(f) ==
    /\ lastCall.op # "none"
    /\ lastCall.exc = "none"
    /\ f \notin DOMAIN store.files[ConfigFile(lastCall.name)].data

\* C5: when the record of the requested name N omits the environment field,
\* the resolved configuration's environment equals N.
C5_EnvironmentMirrorsRequestedName ==
    LastRecordOmits("environment") =>
        heap[lastCall.ref].environment = lastCall.name

\* the last two calls are the same operation on the same inputs
SameCallTwice ==
    /\ lastCall.op # "none"
    /\ prevCall.op = lastCall.op
    /\ prevCall.arg = lastCall.arg

\* C6: resolving twice in a row with the same inputs gives the same outcome
\* and two configurations equal field by field.
C6_ResolutionIdempotent ==
    SameCallTwice =>
        /\ prevCall.exc = lastCall.exc
        /\ lastCall.exc = "none" =>
              /\ prevCall.ref # NoRef
              /\ heap[prevCall.ref] = heap[lastCall.ref]

\* the fixture body run twice with both overrides written into two objects
C6_Witness ==
    /\ SameCallTwice
    /\ lastCall.op = "test_environment"
    /\ lastCall.exc = "none"
    /\ prevCall.ref # lastCall.ref
    /\ cli.browser = "edge"
    /\ cli.headless
    /\ heap[lastCall.ref].browser = "edge"
    /\ heap[prevCall.ref].browser = "edge"

\* the configuration the session resolved
SessionConfig == heap[lastCall.ref]

BrowserStarted == browser.instantiated > 0

StartedHeadless == "--headless" \in browser.session.args

WindowResized == browser.session.window # <<>>

\* CI values commonly read as true
CITruthy == osenv["CI"] \in {"true", "TRUE", "1"}

\* the values str.lower() maps to "true"
CIIsTrue == osenv["CI"] \in {"true", "TRUE"}

Contains(s, sub) ==
    \E i \in 0..(Len(s) - Len(sub)) : SubSeq(s, i + 1, i + Len(sub)) = sub

\* the test name with each "::" and each space replaced by "_"
Underscored(name) ==
    IF name = <<"a", ":", ":", " ", "b">> THEN <<"a", "_", "_", "b">> ELSE name

InScreenshots(f) == f.dir = "results/screenshots"

\* C8 as stated: a failed call phase writes exactly one file whose name has
\* FAILED and the test's identifier; otherwise the observer writes no file.
C8_FailedBodyWritesOneScreenshot ==
    /\ (hook.callFailed /\ item # NoItem) =>
          /\ Cardinality(hook.created) = 1
          /\ \A f \in hook.created :
                /\ InScreenshots(f)
                /\ f.complete
                /\ Contains(f.name, <<"FAILED">>)
                /\ Contains(f.name, item.name)
    /\ ~hook.callFailed => hook.created = {}

\* the capture steps up to the written file succeeded
FileWritten == hook.fault \in {"none", "attach"}

\* C8 amended: when the call phase is reported failed and creating the
\* directory, taking the screenshot and writing the file succeed, exactly one
\* file is written under results/screenshots, its name holding FAILED and the
\* test's name with "::" and spaces replaced by "_"; when one of these steps
\* fails no complete file is written; when the body passes or the failure is
\* in setup or teardown the observer writes no file.
C8_FailedBodyWritesOneScreenshotIfCaptured ==
    /\ (hook.callFailed /\ FileWritten) =>
          /\ Cardinality(hook.created) = 1
          /\ hook.created \subseteq fs
          /\ \A f \in hook.created :
                /\ InScreenshots(f)
                /\ f.complete
                /\ Contains(f.name, <<"FAILED">>)
                /\ item # NoItem => Contains(f.name, Underscored(item.name))
    /\ (hook.callFailed /\ ~FileWritten) =>
          \A f \in hook.created : ~f.complete
    /\ ~hook.callFailed => hook.created = {}

\* the failed body of the test named "a:: b" has its one screenshot
C8_Witness ==
    /\ phase = "teardown"
    /\ hook.callFailed
    /\ hook.fault = "none"
    /\ item.name = <<"a", ":", ":", " ", "b">>
    /\ Cardinality(hook.created) = 1
    /\ \A f \in hook.created : Contains(f.name, <<"FAILED", "_", "a", "_", "_", "b">>)

\* C9: a failure of a capture step never leaves the hook, the report stays
\* the failed report of the call phase, and the screenshot path is on the
\* report only when every step succeeded.
C9_CaptureFailureSwallowed ==
    /\ ~hook.raised
    /\ (hook.callFailed /\ phase = "teardown") =>
          /\ rep.when = "call"
          /\ rep.outcome = "failed"
    /\ rep.screenshot_path # <<>> => (hook.callFailed /\ hook.fault = "none")

\* the browser failed to deliver the screenshot and the report is unchanged
C9_Witness ==
    /\ phase = "teardown"
    /\ hook.callFailed
    /\ hook.fault = "get_screenshot_as_png"
    /\ rep.outcome = "failed"
    /\ rep.screenshot_path = <<>>
    /\ ~hook.raised

\* the record the session asks for is missing or is not a JSON object
RecordUnusable ==
    LET f == ConfigFile(GetOptionEnv(cli))
    IN  ~Exists(store, f) \/ store.files[f].kind # "object"

\* the test_environment fixture ran and raised
ResolutionFailed == lastCall.op = "test_environment" /\ lastCall.exc # "none"

\* C10: a browser is instantiated only after resolution succeeded; in a run
\* whose resolution fails, and in every run whose record is missing or
\* malformed, no browser is instantiated, nothing is navigated to and no
\* test body runs.
C10_NoBrowserWithoutConfiguration ==
    /\ BrowserStarted => (lastCall.op = "test_environment" /\ lastCall.exc = "none")
    /\ (RecordUnusable \/ ResolutionFailed) =>
          /\ browser.instantiated = 0
          /\ browser.gets = 0
          /\ bodies = 0

\* a whole session run against a missing record
C10_Witness ==
    /\ SessionOver
    /\ testIdx = MaxTests
    /\ lastCall.exc = "FileNotFoundError"
    /\ store.dirExists
    /\ browser.instantiated = 0
    /\ bodies = 0

\* the body of the current test is about to run or has just run
BodyReached == phase = "call" \/ (phase = "report" /\ rep.when = "call")

\* C11: a test body starts only from a session that open_base_url navigated
\* to the resolved base URL during the setup of this very test: the fixture
\* is among the funcargs pytest filled for the item, the session shows the
\* base URL of the resolved configuration whatever the previous test left,
\* and no body has run without a get of its own.
C11_BodyStartsAtBaseUrl ==
    /\ phase = "call" =>
          /\ "open_base_url" \in DOMAIN item.funcargs
          /\ browser.url = SessionConfig.base_url
    /\ BodyReached => browser.gets >= bodies + (IF phase = "call" THEN 1 ELSE 0)
    /\ bodies <= browser.gets

\* the second test is about to run its body after the first test's login
\* went through, and a second get brought the session back
C11_Witness ==
    /\ testIdx = 2
    /\ phase = "call"
    /\ bodies = 1
    /\ browser.gets = 2
    /\ browser.url = SessionConfig.base_url
    /\ fs = {}

\* C12: one session sees at most one call of a webdriver constructor, failed
\* or not; every body runs with the one session that call created as its
\* driver, still live and never quit before; once the driver fixture raised,
\* no later test reaches its body or starts another browser.
C12_OneBrowserPerSession ==
    /\ browser.attempts <= 1
    /\ browser.instantiated <= browser.attempts
    /\ BodyReached =>
          /\ item.funcargs["driver"] = 1
          /\ browser.instantiated = 1
          /\ browser.live
          /\ browser.quits = 0
    /\ driverFixture.state = "raised" => bodies = 0 /\ browser.yields = 0

\* the second test runs its body with the session of the first test, whose
\* body failed
C12_Witness ==
    /\ testIdx = 2
    /\ phase = "call"
    /\ bodies = 1
    /\ fs # {}
    /\ browser.attempts = 1
    /\ browser.live

\* the second test errors in setup on the cached failure of the one
\* instantiation the first test attempted
C12_WitnessNotRetried ==
    /\ testIdx = 2
    /\ phase = "report"
    /\ rep = SetupFailed
    /\ driverFixture.state = "raised"
    /\ browser.attempts = 1
    /\ browser.instantiated = 0

\* the run was started without --env and the test_environment fixture ran
FixtureRanWithoutEnvOption ==
    lastCall.op = "test_environment" /\ cli.env = None

\* C13: in a run started without --env the test_environment fixture resolves
\* the environment TEST_ENV names when it is set, and "prod" only when
\* TEST_ENV is unset.
C13_TestEnvSelectsWithoutEnvOption ==
    FixtureRanWithoutEnvOption =>
        lastCall.name = (IF osenv["TEST_ENV"] # None
                         THEN osenv["TEST_ENV"] ELSE "prod")

\* a required credential is unset or blank
Incomplete(c) ==
    \E f \in RequiredFields : c[f] = Absent \/ strip(c[f][1]) = <<>>

NotifierCalled == waCall.status # "none"

\* C14: a call of send_whatsapp_notification ends by returning a boolean and
\* never by an exception; it returns True exactly when the API accepted the
\* message; with an incomplete configuration or one that fails the format
\* validation it returns False and messages.create was not called; a create
\* that fails gives False.
C14_NotifierReturnsBoolean ==
    NotifierCalled =>
        /\ waCall.exc = "none"
        /\ waCall.ret \in {<<TRUE>>, <<FALSE>>}
        /\ waCall.ret = <<TRUE>> <=> waCall.sent = 1
        /\ (Incomplete(waConfig) \/ ~validate_credentials(waConfig).valid) =>
               waCall.ret = <<FALSE>> /\ waCall.creates = 0
        /\ (waCall.creates = 1 /\ waCall.sent = 0) => waCall.ret = <<FALSE>>

\* the same with the account SID set, to whatever value
C14_ReturnsBooleanWhenSidSet ==
    waConfig.account_sid # Absent => C14_NotifierReturnsBoolean

\* from_dict was applied to the record
Applied == fdResult # NotApplied

\* C15: from_dict applied to any object over the documented fields, a
\* window_size with only width or only height included, returns a
\* configuration and raises nothing; every absent field has its default,
\* an absent width or height that of the default window.
C15_DefaultingTotal ==
    Applied =>
        /\ fdResult.exc = "none"
        /\ \A f \in OptionalFields \ DOMAIN fdInput :
               fdResult.value[f] = DocumentedDefault[f]
        /\ "window_size" \in DOMAIN fdInput =>
               \A d \in {"width", "height"} \ DOMAIN fdInput["window_size"] :
                   fdResult.value.window_size[d] =
                       DocumentedDefault["window_size"][d]

\* the same for the records whose window_size, if any, is complete
C15_TotalForCompleteWindowSize ==
    ("window_size" \in DOMAIN fdInput =>
         DOMAIN fdInput["window_size"] = {"width", "height"})
        => C15_DefaultingTotal

\* C16: once the session is over no browser that webdriver instantiated is
\* still live: every instantiated session was quit, also when
\* implicitly_wait, set_page_load_timeout or set_window_size raised before
\* the yield.
C16_NoLiveBrowserAtSessionEnd ==
    SessionOver => ~browser.live /\ browser.quits = browser.instantiated

\* the same for the sessions the driver fixture yielded
C16_YieldedBrowserQuitAtSessionEnd ==
    (SessionOver /\ browser.yields = browser.instantiated) =>
        ~browser.live /\ browser.quits = browser.instantiated

\* a property was read through the facade and the read returned
FacadeAnswered == facadeRead.property # "none" /\ facadeRead.exc = "none"

\* C17: the value a facade read returns is the value the same field has in
\* the manager's active configuration at the time of the read, whatever
\* reads and loads came before.
C17_FacadeMirrorsActiveConfiguration ==
    FacadeAnswered =>
        facade_get(heap[facadeRead.ref], facadeRead.property) =
            facade_get(heap[facadeRead.mgr], facadeRead.property)

\* what the proxy does return: the configuration that was active at its
\* first read
C17_FacadeReturnsFirstReadConfiguration ==
    FacadeAnswered => facadeRead.ref = proxyConfig /\ proxyConfig # NoRef

====
